---------------------------- MODULE Spec2Model ----------------------------
(***************************************************************************)
(* Model of the Charge Anywhere country change tool (src/app.py,           *)
(* src/run.py): the update_country request handler with its batch          *)
(* recovery sub-flow, and the pure helpers it relies on.                   *)
(*                                                                         *)
(* Text is modelled as a sequence of one-character strings, so that        *)
(* strip() and split() are computed the way Python computes them.          *)
(* Instants are minutes since 1970-01-01T00:00Z; a civil date is a day     *)
(* number since 1970-01-01, rendered by strftime as <<mm, dd, yyyy>>.      *)
(***************************************************************************)
EXTENDS Integers, Sequences, FiniteSets, TLC

VARIABLES
    server,             \* run.py main(): "boot", "serving" or "exited"
    deps_ok,            \* run.py check_dependencies(): modules importable
    env,                \* process environment after load_dotenv()
    now,                \* datetime.now(pytz.UTC), minutes since the epoch
    pc,                 \* position of update_country in the current request
    form,               \* request.form of the current request
    soap_request,       \* update_country local: the built update document
    result,             \* update_country local: the parsed update reply
    batch_closed,       \* update_country local
    batch_close_error,  \* update_country local
    calls,              \* vendor calls of the current request, with replies
    response,           \* the HTTP response of the current request
    fn_in,              \* argument of a helper applied on its own
    fn_out,             \* value the helper returned
    parked              \* locals of the worker thread that is not running

vars == <<server, deps_ok, env, now, pc, form, soap_request, result,
          batch_closed, batch_close_error, calls, response, fn_in, fn_out, parked>>

None == [kind |-> "None"]

-----------------------------------------------------------------------------
(* Python str methods used by the program *)

Whitespace == {" ", "\t", "\r", "\n"}

RECURSIVE lstrip(_)
lstrip(s) ==
    IF s # <<>> /\ Head(s) \in Whitespace THEN lstrip(Tail(s)) ELSE s

RECURSIVE rstrip(_)
rstrip(s) ==
    IF s # <<>> /\ s[Len(s)] \in Whitespace
    THEN rstrip(SubSeq(s, 1, Len(s) - 1))
    ELSE s

strip(s) == rstrip(lstrip(s))

RECURSIVE split(_, _)
split(s, sep) ==
    IF \E i \in 1..Len(s) : s[i] = sep
    THEN LET i == CHOOSE k \in 1..Len(s) :
                      s[k] = sep /\ \A j \in 1..(k - 1) : s[j] # sep
         IN  <<SubSeq(s, 1, i - 1)>> \o split(SubSeq(s, i + 1, Len(s)), sep)
    ELSE <<s>>

RECURSIVE join(_, _)
join(parts, sep) ==
    IF parts = <<>> THEN <<>>
    ELSE IF Len(parts) = 1 THEN parts[1]
    ELSE parts[1] \o <<sep>> \o join(Tail(parts), sep)

-----------------------------------------------------------------------------
(* Civil calendar and the America/New_York zone as pytz implements it *)

MinutesPerDay == 1440

\* days since 1970-01-01 of the proleptic Gregorian date y-m-d
days_from_civil(y, m, d) ==
    LET yy  == IF m <= 2 THEN y - 1 ELSE y
        era == yy \div 400
        yoe == yy - era * 400
        mp  == IF m > 2 THEN m - 3 ELSE m + 9
        doy == (153 * mp + 2) \div 5 + d - 1
        doe == yoe * 365 + yoe \div 4 - yoe \div 100 + doy
    IN  era * 146097 + doe - 719468

\* <<y, m, d>> of a day number
civil_from_days(z) ==
    LET zz  == z + 719468
        era == zz \div 146097
        doe == zz - era * 146097
        yoe == (doe - doe \div 1460 + doe \div 36524 - doe \div 146096) \div 365
        doy == doe - (365 * yoe + yoe \div 4 - yoe \div 100)
        mp  == (5 * doy + 2) \div 153
        d   == doy - (153 * mp + 2) \div 5 + 1
        m   == IF mp < 10 THEN mp + 3 ELSE mp - 9
        y   == yoe + era * 400 + (IF m <= 2 THEN 1 ELSE 0)
    IN  <<y, m, d>>

\* 0 = Sunday
weekday(z) == (z + 4) % 7

\* the first Sunday on or after day z
sunday_on_or_after(z) == z + ((7 - weekday(z)) % 7)

\* US rule since 2007: daylight time from the second Sunday of March,
\* 02:00 EST (07:00 UTC), to the first Sunday of November, 02:00 EDT
\* (06:00 UTC)
dst_start(y) ==
    (sunday_on_or_after(days_from_civil(y, 3, 1)) + 7) * MinutesPerDay + 7 * 60

dst_end(y) ==
    sunday_on_or_after(days_from_civil(y, 11, 1)) * MinutesPerDay + 6 * 60

EST_OFFSET == -300
EDT_OFFSET == -240
\* the zone's first entry, local mean time: the utcoffset of the zone object
\* that pytz.timezone() returns, as long as no instant has been localized
LMT_OFFSET == -296

\* utcoffset of America/New_York at a UTC instant
ny_utcoffset(utc) ==
    LET y == civil_from_days(utc \div MinutesPerDay)[1]
    IN  IF dst_start(y) <= utc /\ utc < dst_end(y)
        THEN EDT_OFFSET ELSE EST_OFFSET

\* An aware datetime is its wall-clock minutes and its tzinfo object:
\* "UTC", "ny_tz" (the object get_ny_timezone() returns: pytz.timezone()
\* hands out one cached object per zone name), or "EST" / "EDT" (the
\* zone's instances that astimezone() attaches).
Datetime(wall, tz) == [wall |-> wall, tz |-> tz]

tz_utcoffset(tz) ==
    CASE tz = "UTC"   -> 0
      [] tz = "ny_tz" -> LMT_OFFSET
      [] tz = "EST"   -> EST_OFFSET
      [] tz = "EDT"   -> EDT_OFFSET

\* get_ny_timezone()
get_ny_timezone == "ny_tz"

\* astimezone() converting through UTC even when the datetime already
\* carries the zone object
astimezone_always_converts(dt, tz) ==
    LET utc == dt.wall - tz_utcoffset(dt.tz)
        off == ny_utcoffset(utc)
    IN  Datetime(utc + off, IF off = EDT_OFFSET THEN "EDT" ELSE "EST")

\* dt.astimezone(tz) for tz the New York zone object: no adjustment when
\* dt.tzinfo is tz; otherwise through UTC to the offset in force
astimezone(dt, tz) ==
    IF dt.tz = tz THEN dt
    ELSE LET utc == dt.wall - tz_utcoffset(dt.tz)
             off == ny_utcoffset(utc)
         IN  Datetime(utc + off, IF off = EDT_OFFSET THEN "EDT" ELSE "EST")

\* .date() of a datetime: its civil day
date(dt) == dt.wall \div MinutesPerDay

\* strftime("%m/%d/%Y") of a datetime
strftime_mdY(dt) ==
    LET c == civil_from_days(date(dt)) IN <<c[2], c[3], c[1]>>

\* datetime.combine(day, datetime.min.time()).replace(tzinfo=tz)
midnight_replace_tzinfo(day, tz) == Datetime(day * MinutesPerDay, tz)

format_ny_date(date_obj) ==
    LET ny_tz   == get_ny_timezone
        ny_time == astimezone(date_obj, ny_tz)
    IN  strftime_mdY(ny_time)

get_ny_dates(utc) ==
    LET ny_tz        == get_ny_timezone
        now_utc      == Datetime(utc, "UTC")
        now_ny       == astimezone(now_utc, ny_tz)
        today_ny     == date(now_ny)
        yesterday_ny == today_ny - 1
        tomorrow_ny  == today_ny + 1
    IN  [date_from |-> format_ny_date(midnight_replace_tzinfo(yesterday_ny, ny_tz)),
         date_to   |-> format_ny_date(midnight_replace_tzinfo(tomorrow_ny, ny_tz))]

-----------------------------------------------------------------------------
(* Configuration and fixed tables *)

EnvVars == {"CHANNEL_NAME", "USERNAME", "PASSWORD", "CLIENT_KEY", "CLIENT_SECRET"}

\* os.getenv() of a variable: "<unset>" stands for Python's None
EnvValues == {"<unset>", "", "set"}

\* Python truthiness of an os.getenv() result
truthy(v) == v \notin {"<unset>", ""}

kUS == <<"U", "S">>
kCA == <<"C", "A">>
kAU == <<"A", "U">>

COUNTRIES ==
    (kUS :> [code |-> <<"8", "4", "0">>, name |-> "United States"]) @@
    (kCA :> [code |-> <<"1", "2", "4">>, name |-> "Canada"]) @@
    (kAU :> [code |-> <<"0", "3", "6">>, name |-> "Australia"])

\* a raised Python exception, with the parts of its message
Raise(type, msg, detail) ==
    [kind |-> "raise", type |-> type, msg |-> msg, detail |-> detail]

Return(v) == [kind |-> "return", value |-> v]

\* str(e) of a raised exception
str(e) == [kind |-> "str", msg |-> e.msg, detail |-> e.detail]

-----------------------------------------------------------------------------
(* create_soap_request and parse_soap_response *)

\* the currency fixed to the US dollar instead of following the country
create_soap_request_usd_currency(merchant_id, country_code, environ) ==
    IF ~(truthy(environ["CHANNEL_NAME"]) /\ truthy(environ["USERNAME"])
            /\ truthy(environ["PASSWORD"]))
    THEN Raise("ValueError", "Missing required credentials in .env file", None)
    ELSE Return([ChannelName  |-> environ["CHANNEL_NAME"],
                 UserName     |-> environ["USERNAME"],
                 Password     |-> environ["PASSWORD"],
                 MerchantId   |-> merchant_id,
                 CountryCode  |-> country_code,
                 CurrencyCode |-> <<"8", "4", "0">>])

\* the credentials check leaving out the password
create_soap_request_password_unchecked(merchant_id, country_code, environ) ==
    IF ~(truthy(environ["CHANNEL_NAME"]) /\ truthy(environ["USERNAME"]))
    THEN Raise("ValueError", "Missing required credentials in .env file", None)
    ELSE Return([ChannelName  |-> environ["CHANNEL_NAME"],
                 UserName     |-> environ["USERNAME"],
                 Password     |-> environ["PASSWORD"],
                 MerchantId   |-> merchant_id,
                 CountryCode  |-> country_code,
                 CurrencyCode |-> country_code])

create_soap_request(merchant_id, country_code, environ) ==
    IF ~(truthy(environ["CHANNEL_NAME"]) /\ truthy(environ["USERNAME"])
            /\ truthy(environ["PASSWORD"]))
    THEN Raise("ValueError", "Missing required credentials in .env file", None)
    ELSE Return([ChannelName  |-> environ["CHANNEL_NAME"],
                 UserName     |-> environ["USERNAME"],
                 Password     |-> environ["PASSWORD"],
                 MerchantId   |-> merchant_id,
                 CountryCode  |-> country_code,
                 CurrencyCode |-> country_code])

\* A vendor XML reply: text that is not XML, or a document given by the
\* elements below its root in document order, each with its namespace, its
\* tag and its text (the text "None" stands for an element without content,
\* whose .text is Python's None).
CA_NS == "http://www.chargeanywhere.com/"

Elem(ns, tag, text) == [ns |-> ns, tag |-> tag, text |-> text]

\* root.find(".//ca:<tag>", namespace) taking the tag in any namespace
find_any_namespace(doc, tag) ==
    LET hits == {i \in 1..Len(doc.elems) : doc.elems[i].tag = tag}
    IN  IF hits = {} THEN <<>>
        ELSE <<doc.elems[CHOOSE i \in hits : \A j \in hits : i <= j].text>>

\* root.find(".//ca:<tag>", namespace): the text of the first element of
\* that tag in the vendor's namespace, as a sequence of at most one text
find(doc, tag) ==
    LET hits == {i \in 1..Len(doc.elems) :
                    doc.elems[i].ns = CA_NS /\ doc.elems[i].tag = tag}
    IN  IF hits = {} THEN <<>>
        ELSE <<doc.elems[CHOOSE i \in hits : \A j \in hits : i <= j].text>>

parse_soap_response(response_text) ==
    IF ~response_text.xml
    THEN [success |-> FALSE, response_code |-> "Parse Error",
          response_text |-> "Error parsing response"]
    ELSE LET response_code      == find(response_text, "ResponseCode")
             response_text_elem == find(response_text, "ResponseText")
         IN  IF response_code # <<>> /\ response_text_elem # <<>>
             THEN [success |-> TRUE, response_code |-> response_code[1],
                   response_text |-> response_text_elem[1]]
             ELSE [success |-> FALSE, response_code |-> "Unknown",
                   response_text |-> "Could not parse response"]

-----------------------------------------------------------------------------
(* get_batch_export_data *)

\* the export call sent without a look at the client credentials
export_credentials_ok_unchecked(environ) == TRUE

\* the credentials check made before the export call is sent
export_credentials_ok(environ) ==
    truthy(environ["CLIENT_KEY"]) /\ truthy(environ["CLIENT_SECRET"])

export_form_data(environ, utc) ==
    LET ny_dates == get_ny_dates(utc)
    IN  [ClientKey    |-> environ["CLIENT_KEY"],
         ClientSecret |-> environ["CLIENT_SECRET"],
         DateFrom     |-> ny_dates.date_from,
         DateTo       |-> ny_dates.date_to,
         Version      |-> "1.7",
         Fields       |-> "EMID,TerminalId,Identification"]

\* the loop comparing the third field as it stands in the line
RECURSIVE scan_lines_untrimmed_field(_, _)
scan_lines_untrimmed_field(lines, terminal_id) ==
    IF lines = <<>> THEN None
    ELSE LET line  == strip(Head(lines))
             parts == split(line, ",")
         IN  IF line = <<>> THEN scan_lines_untrimmed_field(Tail(lines), terminal_id)
             ELSE IF Len(parts) < 3
                  THEN scan_lines_untrimmed_field(Tail(lines), terminal_id)
             ELSE IF parts[3] = terminal_id
                  THEN [kind           |-> "record",
                        emid           |-> strip(parts[1]),
                        terminal_id    |-> strip(parts[2]),
                        identification |-> strip(parts[3])]
                  ELSE scan_lines_untrimmed_field(Tail(lines), terminal_id)

\* the loop over the lines of the export body: the first line with at least
\* three fields whose third field is the terminal id, or None
RECURSIVE scan_lines(_, _)
scan_lines(lines, terminal_id) ==
    IF lines = <<>> THEN None
    ELSE LET line  == strip(Head(lines))
             parts == split(line, ",")
         IN  IF line = <<>> THEN scan_lines(Tail(lines), terminal_id)
             ELSE IF Len(parts) < 3 THEN scan_lines(Tail(lines), terminal_id)
             ELSE IF strip(parts[3]) = terminal_id
                  THEN [kind           |-> "record",
                        emid           |-> strip(parts[1]),
                        terminal_id    |-> strip(parts[2]),
                        identification |-> strip(parts[3])]
                  ELSE scan_lines(Tail(lines), terminal_id)

\* the body of the try block from the status check on, given response.text
find_matching_record(text, terminal_id) ==
    LET lines == split(strip(text), "\n")
        matching_record == scan_lines(lines, terminal_id)
    IN  IF matching_record = None
        THEN Raise("Exception", "No matching record found for TID", terminal_id)
        ELSE Return(matching_record)

\* every exception of the try block is raised again as a plain Exception
export_wrap(e) == Raise("Exception", "Batch export failed", str(e))

\* get_batch_export_data without its check of the HTTP status
get_batch_export_data_any_status(terminal_id, reply) ==
    IF reply.kind = "exception"
    THEN export_wrap(Raise("RequestException", "transport failure", None))
    ELSE LET found == find_matching_record(reply.text, terminal_id)
         IN  IF found.kind = "raise" THEN export_wrap(found) ELSE found

\* get_batch_export_data from the reply of requests.post on
get_batch_export_data(terminal_id, reply) ==
    IF reply.kind = "exception"
    THEN export_wrap(Raise("RequestException", "transport failure", None))
    ELSE IF reply.status # 200
    THEN export_wrap(Raise("Exception",
                           "Batch export API returned status code", reply.status))
    ELSE LET found == find_matching_record(reply.text, terminal_id)
         IN  IF found.kind = "raise" THEN export_wrap(found) ELSE found

-----------------------------------------------------------------------------
(* close_batch *)

\* the payload carrying the operator's terminal id as TerminalId
close_payload_operator_terminal(emid, terminal_id, identification) ==
    [MerchantId      |-> emid,
     TerminalId      |-> identification,
     Identification  |-> identification,
     TransactionType |-> "CloseBatch",
     VersionNumber   |-> "2.6"]

close_payload(emid, terminal_id, identification) ==
    [MerchantId      |-> emid,
     TerminalId      |-> terminal_id,
     Identification  |-> identification,
     TransactionType |-> "CloseBatch",
     VersionNumber   |-> "2.6"]

\* result.get(key, ""): a JSON object carries each key at most once
json_get(obj, key) == IF obj[key] = <<>> THEN "" ELSE obj[key][1]

\* close_batch taking every parsed reply for a success
close_succeeded_always(response_code) == TRUE

close_succeeded(response_code) == response_code = "000"

close_wrap(e) == Raise("Exception", "Close batch failed", str(e))

\* close_batch without its check of the HTTP status
close_batch_any_status(reply) ==
    IF reply.kind = "exception"
    THEN close_wrap(Raise("RequestException", "transport failure", None))
    ELSE IF ~reply.text.json
    THEN close_wrap(Raise("JSONDecodeError", "response.json() failed", None))
    ELSE LET response_code == json_get(reply.text, "ResponseCode")
             response_text == json_get(reply.text, "ResponseText")
         IN  Return([success       |-> close_succeeded(response_code),
                     response_code |-> response_code,
                     response_text |-> response_text])

\* close_batch from the reply of requests.post on
close_batch(reply) ==
    IF reply.kind = "exception"
    THEN close_wrap(Raise("RequestException", "transport failure", None))
    ELSE IF reply.status # 200
    THEN close_wrap(Raise("Exception",
                          "Close batch API returned status code", reply.status))
    ELSE IF ~reply.text.json
    THEN close_wrap(Raise("JSONDecodeError", "response.json() failed", None))
    ELSE LET response_code == json_get(reply.text, "ResponseCode")
             response_text == json_get(reply.text, "ResponseText")
         IN  Return([success       |-> close_succeeded(response_code),
                     response_code |-> response_code,
                     response_text |-> response_text])

-----------------------------------------------------------------------------
(* What the operator and the vendor may send *)

sM1  == <<"M", "1">>
sM2  == <<"M", "2">>
sID1 == <<"I", "D", "1">>
sID2 == <<"I", "D", "2">>
sE1  == <<"E", "1">>
sE2  == <<"E", "2">>
sE3  == <<"E", "3">>
sT1  == <<"T", "1">>
sT2  == <<"T", "2">>
sT3  == <<"T", "3">>

pad(s) == <<" ">> \o s \o <<" ">>

MerchantInputs == {<<>>, <<" ">>, pad(sM1), sM2}
TerminalInputs == {<<>>, <<"\t">>, sID1, pad(sID2), <<"N", "O", "P", "E">>}
CountryInputs  == {<<>>, kUS, pad(kAU), <<"X", "X">>}

\* replies of the update endpoint: the HTTP status is not looked at
ElementTexts == {<<>>, <<"175">>, <<"1">>, <<"0">>, <<"None">>}
MessageTexts == {<<>>, <<"Open batch exists">>, <<"OK">>}

\* the document with at most one ca:ResponseCode and one ca:ResponseText
xml_doc(c, t) ==
    [xml   |-> TRUE,
     elems |-> [i \in 1..Len(c) |-> Elem(CA_NS, "ResponseCode", c[i])] \o
               [i \in 1..Len(t) |-> Elem(CA_NS, "ResponseText", t[i])]]

XmlDocs ==
    {[xml |-> FALSE]} \cup
    {xml_doc(c, t) : c \in ElementTexts, t \in MessageTexts}

TransportFailure == [kind |-> "exception"]

UpdateReplies ==
    {TransportFailure} \cup
    {[kind |-> "http", status |-> st, text |-> d] :
        st \in {200, 500}, d \in XmlDocs}

\* export bodies: the lines of each, joined by a line feed
ExportBodies ==
    { join(<<join(<<sE1, sT1, sID1>>, ","), join(<<sE2, sT2, sID2>>, ",")>>, "\n"),
      <<>>,
      join(<<<<>>, join(<<pad(sE3), pad(sT3), pad(sID2)>>, ",") \o <<"\r">>,
             join(<<sE2, sT2, sID2>>, ","), <<>>>>, "\n"),
      join(<<join(<<sE1, sID2>>, ","), join(<<sE2, sID1>>, ",")>>, "\n") }

ExportReplies ==
    {TransportFailure} \cup
    {[kind |-> "http", status |-> st, text |-> b] :
        st \in {200, 500}, b \in ExportBodies}

\* replies of the close-batch endpoint: a body that is not JSON, or a JSON
\* object with or without each of the two keys
JsonBodies ==
    {[json |-> FALSE]} \cup
    {[json |-> TRUE, ResponseCode |-> c, ResponseText |-> t] :
        c \in {<<>>, <<"000">>, <<"005">>}, t \in {<<>>, <<"Batch closed">>}}

CloseReplies ==
    {TransportFailure} \cup
    {[kind |-> "http", status |-> st, text |-> j] :
        st \in {200, 500}, j \in JsonBodies}

\* instants at which requests arrive: 2024-01-15 12:00Z and 2024-07-15 12:00Z
Instants ==
    {days_from_civil(2024, 1, 15) * MinutesPerDay + 12 * 60,
     days_from_civil(2024, 7, 15) * MinutesPerDay + 12 * 60}

-----------------------------------------------------------------------------
(* update_country *)

\* the validation without its check of the terminal id
validation_error_skips_terminal(merchant_id, terminal_id, country_key) ==
    IF merchant_id = <<>> THEN "Merchant ID is required"
    ELSE IF country_key \notin DOMAIN COUNTRIES THEN "Invalid country selection"
    ELSE ""

\* the validation of the three form fields, after strip(): the error of
\* the first check that fails, or "" when all pass
validation_error(merchant_id, terminal_id, country_key) ==
    IF merchant_id = <<>> THEN "Merchant ID is required"
    ELSE IF terminal_id = <<>> THEN "Terminal ID is required"
    ELSE IF country_key \notin DOMAIN COUNTRIES THEN "Invalid country selection"
    ELSE ""

\* the batch closing process started on every reply that is not a success
open_batch_exists_unless_success(res) == res.response_code # "1"

\* the code that starts the batch closing process
open_batch_exists(res) == res.response_code = "175"

\* is_success taken from the parser's success flag
batch_outcome_parser_success(res, closed, close_error) ==
    [success           |-> TRUE,
     merchant_id       |-> strip(form.merchant_id),
     terminal_id       |-> strip(form.terminal_id),
     country           |-> COUNTRIES[strip(form.country)].name,
     response_code     |-> res.response_code,
     response_text     |-> res.response_text,
     is_success        |-> res.success,
     batch_closed      |-> closed,
     batch_close_error |-> close_error]

\* jsonify(...) of the branch that ran the batch closing process
batch_outcome(res, closed, close_error) ==
    [success           |-> TRUE,
     merchant_id       |-> strip(form.merchant_id),
     terminal_id       |-> strip(form.terminal_id),
     country           |-> COUNTRIES[strip(form.country)].name,
     response_code     |-> res.response_code,
     response_text     |-> res.response_text,
     is_success        |-> res.response_code = "1",
     batch_closed      |-> closed,
     batch_close_error |-> close_error]

\* jsonify(...) of the normal branch
normal_outcome(res) ==
    [success       |-> TRUE,
     merchant_id   |-> strip(form.merchant_id),
     terminal_id   |-> strip(form.terminal_id),
     country       |-> COUNTRIES[strip(form.country)].name,
     response_code |-> res.response_code,
     response_text |-> res.response_text,
     is_success    |-> res.response_code = "1"]

error_outcome(msg, detail) ==
    [success |-> FALSE, error |-> [msg |-> msg, detail |-> detail]]

Http(status, body) == [status |-> status, body |-> body]

\* the batch closing process without a try block of its own: its exception
\* reaches the handler's last except clause
sub_flow_failed_aborts(res, closed, e) ==
    Http(500, error_outcome("Unexpected error", str(e)))

\* the except clause of the batch closing process: the exception becomes
\* batch_close_error and the request still answers 200
sub_flow_failed(res, closed, e) == Http(200, batch_outcome(res, closed, str(e)))

\* the retry's reply parsed and dropped
result_after_retry_dropped(initial, retry_response_text) == initial

\* result = parse_soap_response(retry_response.text)
result_after_retry(initial, retry_response_text) ==
    parse_soap_response(retry_response_text)

VendorCall(api, request) == [api |-> api, request |-> request, reply |-> None]

\* the reply to the call in flight, which is the last of the log
with_reply(log, reply) == [log EXCEPT ![Len(log)].reply = reply]

\* a handler returning its response
Respond(r) == pc' = "done" /\ response' = r

\* run.py main(): exits when a dependency is missing; check_env_file() only
\* prints warnings and its result is not looked at
main ==
    /\ server = "boot"
    /\ server' = IF deps_ok THEN "serving" ELSE "exited"
    /\ UNCHANGED <<deps_ok, env, now, pc, form, soap_request, result,
                   batch_closed, batch_close_error, calls, response,
                   fn_in, fn_out, parked>>

\* update_country up to the first requests.post
receive_request ==
    /\ server = "serving"
    /\ pc = "idle"
    /\ \E m \in MerchantInputs, t \in TerminalInputs, c \in CountryInputs :
        LET merchant_id == strip(m)
            terminal_id == strip(t)
            country_key == strip(c)
            invalid     == validation_error(merchant_id, terminal_id, country_key)
        IN  /\ form' = [merchant_id |-> m, terminal_id |-> t, country |-> c]
            /\ IF invalid # ""
               THEN /\ Respond(Http(400, error_outcome(invalid, None)))
                    /\ UNCHANGED <<soap_request, calls>>
               ELSE LET built == create_soap_request(
                                     merchant_id, COUNTRIES[country_key].code, env)
                    IN  IF built.kind = "raise"
                        THEN /\ Respond(Http(500, error_outcome(
                                            "Unexpected error", str(built))))
                             /\ UNCHANGED <<soap_request, calls>>
                        ELSE /\ soap_request' = built.value
                             /\ calls' = <<VendorCall("update", built.value)>>
                             /\ pc' = "await_update"
                             /\ UNCHANGED response
    /\ UNCHANGED <<server, deps_ok, env, now, result, batch_closed,
                   batch_close_error, fn_in, fn_out, parked>>

\* from the reply of the first requests.post to the export call
update_reply ==
    /\ pc = "await_update"
    /\ \E reply \in UpdateReplies :
        /\ IF reply.kind = "exception"
           THEN /\ calls' = with_reply(calls, reply)
                /\ Respond(Http(500, error_outcome("API request failed", None)))
                /\ UNCHANGED <<result, batch_closed, batch_close_error>>
           ELSE LET res == parse_soap_response(reply.text)
                IN  /\ result' = res
                    /\ IF ~open_batch_exists(res)
                       THEN /\ calls' = with_reply(calls, reply)
                            /\ Respond(Http(200, normal_outcome(res)))
                            /\ UNCHANGED <<batch_closed, batch_close_error>>
                       ELSE /\ batch_closed' = FALSE
                            /\ IF ~export_credentials_ok(env)
                               THEN LET e == export_wrap(Raise("ValueError",
                                                "Missing CLIENT_KEY or CLIENT_SECRET in .env file",
                                                None))
                                    IN  /\ calls' = with_reply(calls, reply)
                                        /\ batch_close_error' = str(e)
                                        /\ Respond(sub_flow_failed(res, FALSE, e))
                               ELSE /\ calls' = Append(with_reply(calls, reply),
                                            VendorCall("export", export_form_data(env, now)))
                                    /\ batch_close_error' = None
                                    /\ pc' = "await_export"
                                    /\ UNCHANGED response
    /\ UNCHANGED <<server, deps_ok, env, now, form, soap_request, fn_in, fn_out, parked>>

\* an export call that is sent once more when the first one fails
export_reply_resending ==
    /\ pc = "await_export"
    /\ \E reply \in ExportReplies :
        LET export_data == get_batch_export_data(strip(form.terminal_id), reply)
        IN  IF export_data.kind = "raise"
            THEN IF Len(calls) = 2
                 THEN /\ calls' = Append(with_reply(calls, reply),
                              VendorCall("export", export_form_data(env, now)))
                      /\ UNCHANGED <<pc, batch_close_error, response>>
                 ELSE /\ calls' = with_reply(calls, reply)
                      /\ batch_close_error' = str(export_data)
                      /\ Respond(sub_flow_failed(result, batch_closed, export_data))
            ELSE /\ calls' = Append(with_reply(calls, reply),
                         VendorCall("close", close_payload(
                             export_data.value.emid,
                             export_data.value.terminal_id,
                             export_data.value.identification)))
                 /\ pc' = "await_close"
                 /\ UNCHANGED <<batch_close_error, response>>
    /\ UNCHANGED <<server, deps_ok, env, now, form, soap_request, result,
                   batch_closed, fn_in, fn_out, parked>>

\* from the reply of the export call to the close-batch call
export_reply ==
    /\ pc = "await_export"
    /\ \E reply \in ExportReplies :
        LET export_data == get_batch_export_data(strip(form.terminal_id), reply)
        IN  IF export_data.kind = "raise"
            THEN /\ calls' = with_reply(calls, reply)
                 /\ batch_close_error' = str(export_data)
                 /\ Respond(sub_flow_failed(result, batch_closed, export_data))
            ELSE /\ calls' = Append(with_reply(calls, reply),
                         VendorCall("close", close_payload(
                             export_data.value.emid,
                             export_data.value.terminal_id,
                             export_data.value.identification)))
                 /\ pc' = "await_close"
                 /\ UNCHANGED <<batch_close_error, response>>
    /\ UNCHANGED <<server, deps_ok, env, now, form, soap_request, result,
                   batch_closed, fn_in, fn_out, parked>>

\* from the reply of the close-batch call to the retry of the update
close_reply ==
    /\ pc = "await_close"
    /\ \E reply \in CloseReplies :
        LET close_result == close_batch(reply)
        IN  IF close_result.kind = "raise"
            THEN /\ calls' = with_reply(calls, reply)
                 /\ batch_close_error' = str(close_result)
                 /\ Respond(sub_flow_failed(result, batch_closed, close_result))
                 /\ UNCHANGED batch_closed
            ELSE IF close_result.value.success
            THEN /\ batch_closed' = TRUE
                 /\ calls' = Append(with_reply(calls, reply),
                                    VendorCall("update", soap_request))
                 /\ pc' = "await_retry"
                 /\ UNCHANGED <<batch_close_error, response>>
            ELSE LET err == [kind   |-> "str",
                             msg    |-> "Batch close failed",
                             detail |-> <<close_result.value.response_code,
                                          close_result.value.response_text>>]
                 IN  /\ calls' = with_reply(calls, reply)
                     /\ batch_close_error' = err
                     /\ Respond(Http(200, batch_outcome(result, batch_closed, err)))
                     /\ UNCHANGED batch_closed
    /\ UNCHANGED <<server, deps_ok, env, now, form, soap_request, result,
                   fn_in, fn_out, parked>>

\* a retry that starts the batch closing process again when its own reply
\* is "175"
retry_reply_recovering ==
    /\ pc = "await_retry"
    /\ \E reply \in UpdateReplies :
        IF reply.kind = "exception"
        THEN LET e == Raise("RequestException", "transport failure", None)
             IN  /\ calls' = with_reply(calls, reply)
                 /\ batch_close_error' = str(e)
                 /\ Respond(sub_flow_failed(result, batch_closed, e))
                 /\ UNCHANGED result
        ELSE LET res == result_after_retry(result, reply.text)
             IN  /\ result' = res
                 /\ UNCHANGED batch_close_error
                 /\ IF open_batch_exists(res) /\ export_credentials_ok(env)
                    THEN /\ calls' = Append(with_reply(calls, reply),
                                 VendorCall("export", export_form_data(env, now)))
                         /\ pc' = "await_export"
                         /\ UNCHANGED response
                    ELSE /\ calls' = with_reply(calls, reply)
                         /\ Respond(Http(200, batch_outcome(res, batch_closed,
                                                            batch_close_error)))
    /\ UNCHANGED <<server, deps_ok, env, now, form, soap_request,
                   batch_closed, fn_in, fn_out, parked>>

\* from the reply of the retry to the response; the retry is sent inside
\* the try block of the batch closing process, whose except clause catches
\* a transport failure of the retry as well
retry_reply ==
    /\ pc = "await_retry"
    /\ \E reply \in UpdateReplies :
        /\ calls' = with_reply(calls, reply)
        /\ IF reply.kind = "exception"
           THEN LET e == Raise("RequestException", "transport failure", None)
                IN  /\ batch_close_error' = str(e)
                    /\ Respond(sub_flow_failed(result, batch_closed, e))
                    /\ UNCHANGED result
           ELSE LET res == result_after_retry(result, reply.text)
                IN  /\ result' = res
                    /\ Respond(Http(200, batch_outcome(res, batch_closed,
                                                       batch_close_error)))
                    /\ UNCHANGED batch_close_error
    /\ UNCHANGED <<server, deps_ok, env, now, form, soap_request,
                   batch_closed, fn_in, fn_out, parked>>

\* the response is sent and the worker takes the next request; nothing of
\* the request is kept
next_request ==
    /\ pc = "done"
    /\ pc' = "idle"
    /\ now' \in Instants
    /\ form' = None
    /\ soap_request' = None
    /\ result' = None
    /\ batch_closed' = FALSE
    /\ batch_close_error' = None
    /\ calls' = <<>>
    /\ response' = None
    /\ UNCHANGED <<server, deps_ok, env, fn_in, fn_out, parked>>

\* the locals of update_country in a worker thread, with the clock value
\* the thread reads
Locals ==
    [pc                |-> pc,
     now               |-> now,
     form              |-> form,
     soap_request      |-> soap_request,
     result            |-> result,
     batch_closed      |-> batch_closed,
     batch_close_error |-> batch_close_error,
     calls             |-> calls,
     response          |-> response]

\* a worker thread between two requests
IdleLocals(utc) ==
    [pc                |-> "idle",
     now               |-> utc,
     form              |-> None,
     soap_request      |-> None,
     result            |-> None,
     batch_closed      |-> FALSE,
     batch_close_error |-> None,
     calls             |-> <<>>,
     response          |-> None]

\* batch_closed kept in a module-level variable, which both threads write
switch_shared_batch_closed ==
    /\ server = "serving"
    /\ parked' = Locals
    /\ pc' = parked.pc
    /\ now' = parked.now
    /\ form' = parked.form
    /\ soap_request' = parked.soap_request
    /\ result' = parked.result
    /\ batch_close_error' = parked.batch_close_error
    /\ calls' = parked.calls
    /\ response' = parked.response
    /\ UNCHANGED <<server, deps_ok, env, batch_closed, fn_in, fn_out>>

\* the other worker thread runs: every name update_country assigns is a
\* local of the call, so each thread resumes with its own values; the
\* environment and COUNTRIES are only read
switch ==
    /\ server = "serving"
    /\ parked' = Locals
    /\ pc' = parked.pc
    /\ now' = parked.now
    /\ form' = parked.form
    /\ soap_request' = parked.soap_request
    /\ result' = parked.result
    /\ batch_closed' = parked.batch_closed
    /\ batch_close_error' = parked.batch_close_error
    /\ calls' = parked.calls
    /\ response' = parked.response
    /\ UNCHANGED <<server, deps_ok, env, fn_in, fn_out>>

Init ==
    /\ server = "boot"
    /\ deps_ok \in BOOLEAN
    /\ env \in [EnvVars -> EnvValues]
    /\ now \in Instants
    /\ pc = "idle"
    /\ form = None
    /\ soap_request = None
    /\ result = None
    /\ batch_closed = FALSE
    /\ batch_close_error = None
    /\ calls = <<>>
    /\ response = None
    /\ fn_in = None
    /\ fn_out = None
    /\ parked = IdleLocals(now)

Next ==
    \/ main
    \/ receive_request
    \/ update_reply
    \/ export_reply
    \/ close_reply
    \/ retry_reply
    \/ next_request

Spec == Init /\ [][Next]_vars

\* Two worker threads of the serving process. Their requests are drawn from
\* three forms and three environments, the replies to their calls from two
\* or three for each endpoint.
ConcForms ==
    {[merchant_id |-> pad(sM1), terminal_id |-> sID1, country |-> kUS],
     [merchant_id |-> sM2, terminal_id |-> pad(sID2), country |-> pad(kAU)],
     [merchant_id |-> sM2, terminal_id |-> <<>>, country |-> kUS]}

ConcEnvs ==
    {[v \in EnvVars |-> "set"],
     [v \in EnvVars |-> IF v = "CLIENT_KEY" THEN "<unset>" ELSE "set"],
     [v \in EnvVars |-> IF v = "PASSWORD" THEN "" ELSE "set"]}

ConcUpdateReplies ==
    {TransportFailure,
     [kind |-> "http", status |-> 200,
      text |-> xml_doc(<<"175">>, <<"Open batch exists">>)],
     [kind |-> "http", status |-> 200, text |-> xml_doc(<<"1">>, <<"OK">>)]}

ConcExportReplies ==
    {TransportFailure,
     [kind |-> "http", status |-> 200,
      text |-> join(<<join(<<sE1, sT1, sID1>>, ","),
                      join(<<sE2, sT2, sID2>>, ",")>>, "\n")],
     [kind |-> "http", status |-> 500, text |-> <<>>]}

ConcCloseReplies ==
    {[kind |-> "http", status |-> 200,
      text |-> [json |-> TRUE, ResponseCode |-> <<"000">>,
                ResponseText |-> <<"Batch closed">>]],
     [kind |-> "http", status |-> 200,
      text |-> [json |-> TRUE, ResponseCode |-> <<"005">>,
                ResponseText |-> <<>>]]}

\* the call in flight is answered by one of the replies
Answered(replies) == calls'[Len(calls)].reply \in replies

InitConc ==
    /\ server = "serving"
    /\ deps_ok = TRUE
    /\ env \in ConcEnvs
    /\ now \in Instants
    /\ pc = "idle"
    /\ form = None
    /\ soap_request = None
    /\ result = None
    /\ batch_closed = FALSE
    /\ batch_close_error = None
    /\ calls = <<>>
    /\ response = None
    /\ fn_in = None
    /\ fn_out = None
    /\ parked \in {IdleLocals(u) : u \in Instants}

NextConc ==
    \/ switch
    \/ receive_request /\ form' \in ConcForms
    \/ update_reply /\ Answered(ConcUpdateReplies)
    \/ export_reply /\ Answered(ConcExportReplies)
    \/ close_reply /\ Answered(ConcCloseReplies)
    \/ retry_reply /\ Answered(ConcUpdateReplies)
    \/ next_request

SpecConc == InitConc /\ [][NextConc]_vars

\* every vendor call that is awaited returns or fails: requests.post has
\* a timeout, after which it raises
SpecLive ==
    /\ Spec
    /\ WF_vars(update_reply)
    /\ WF_vars(export_reply)
    /\ WF_vars(close_reply)
    /\ WF_vars(retry_reply)

-----------------------------------------------------------------------------
(* The helpers applied on their own, over wider inputs than a request of   *)
(* the handler model draws                                                 *)

\* the handler's variables while a helper is applied on its own
HandlerAtRest ==
    /\ server = "boot"
    /\ deps_ok = TRUE
    /\ env = [v \in EnvVars |-> "set"]
    /\ now = days_from_civil(2024, 1, 15) * MinutesPerDay
    /\ pc = "idle"
    /\ form = None
    /\ soap_request = None
    /\ result = None
    /\ batch_closed = FALSE
    /\ batch_close_error = None
    /\ calls = <<>>
    /\ response = None
    /\ parked = IdleLocals(now)

HandlerVars == <<server, deps_ok, env, now, pc, form, soap_request, result,
                 batch_closed, batch_close_error, calls, response, parked>>

\* days on each side of an anchor day that the instants cover
DaySpan == 2

\* New Year, the start of daylight time, midsummer, the end of daylight time
AnchorDays ==
    {days_from_civil(2024, 1, 1), days_from_civil(2024, 3, 10),
     days_from_civil(2024, 7, 15), days_from_civil(2024, 11, 3)}

SampleInstants ==
    {(a + k) * MinutesPerDay + h * 60 :
        a \in AnchorDays, k \in (0 - DaySpan)..DaySpan, h \in 0..23}

InitDates ==
    /\ HandlerAtRest
    /\ fn_in \in {[kind |-> "instant", utc |-> u] : u \in SampleInstants}
    /\ fn_out = None

apply_get_ny_dates ==
    /\ fn_in.kind = "instant"
    /\ fn_out = None
    /\ fn_out' = [kind |-> "ny_dates", value |-> get_ny_dates(fn_in.utc)]
    /\ UNCHANGED <<HandlerVars, fn_in>>

NextDates == apply_get_ny_dates

SpecDates == InitDates /\ [][NextDates]_vars

\* most lines of an export body
MaxLines == 3

\* lines of an export body, each as its comma-separated fields
Rows ==
    { <<sE1, sT1, sID1>>,
      <<sE2, sT2, sID2>>,
      <<pad(sE3), pad(sT3), pad(sID2) \o <<"\r">>>>,
      <<sE1, sID2>>,
      <<<<>>>>,
      <<<<" ">>>>,
      <<sE3, sT3, sID2, <<"X">>>>,
      <<sE2, sT1, <<"i", "d", "2">>>>,
      <<sE1, sT2, <<>>>> }

RowSeqs == UNION {[1..n -> Rows] : n \in 0..MaxLines}

ScanTerminals == {sID1, sID2, <<"N", "O", "P", "E">>, <<>>}

\* the export body whose lines are the rows
body_of(rows) == join([i \in 1..Len(rows) |-> join(rows[i], ",")], "\n")

InitScan ==
    /\ HandlerAtRest
    /\ fn_in \in {[kind |-> "export", rows |-> r, text |-> body_of(r),
                   terminal_id |-> t] : r \in RowSeqs, t \in ScanTerminals}
    /\ fn_out = None

apply_get_batch_export_data ==
    /\ fn_in.kind = "export"
    /\ fn_out = None
    /\ fn_out' = get_batch_export_data(fn_in.terminal_id,
                     [kind |-> "http", status |-> 200, text |-> fn_in.text])
    /\ UNCHANGED <<HandlerVars, fn_in>>

NextScan == apply_get_batch_export_data

SpecScan == InitScan /\ [][NextScan]_vars

\* most elements below the root of a reply
MaxElems == 3

ElemChoices ==
    { Elem(CA_NS, "ResponseCode", "1"),
      Elem(CA_NS, "ResponseCode", "175"),
      Elem(CA_NS, "ResponseCode", "None"),
      Elem(CA_NS, "ResponseText", "OK"),
      Elem("", "ResponseCode", "0"),
      Elem("", "ResponseText", "no namespace"),
      Elem(CA_NS, "Create_Update_MerchantInfoResult", "None") }

ParseDocs ==
    {[xml |-> FALSE]} \cup
    {[xml |-> TRUE, elems |-> e] :
        e \in UNION {[1..n -> ElemChoices] : n \in 0..MaxElems}}

InitParse ==
    /\ HandlerAtRest
    /\ fn_in \in {[kind |-> "reply_text", doc |-> d] : d \in ParseDocs}
    /\ fn_out = None

apply_parse_soap_response ==
    /\ fn_in.kind = "reply_text"
    /\ fn_out = None
    /\ fn_out' = [kind |-> "parsed", value |-> parse_soap_response(fn_in.doc)]
    /\ UNCHANGED <<HandlerVars, fn_in>>

NextParse == apply_parse_soap_response

SpecParse == InitParse /\ [][NextParse]_vars

\* replies of the close-batch endpoint over more statuses, codes and texts
CloseProbeBodies ==
    {[json |-> FALSE]} \cup
    {[json |-> TRUE, ResponseCode |-> c, ResponseText |-> t] :
        c \in {<<>>, <<"000">>, <<"005">>, <<"0">>, <<"00">>, <<"">>},
        t \in {<<>>, <<"Batch closed">>, <<"">>}}

CloseProbeReplies ==
    {TransportFailure} \cup
    {[kind |-> "http", status |-> st, text |-> j] :
        st \in {200, 201, 404, 500}, j \in CloseProbeBodies}

InitClose ==
    /\ HandlerAtRest
    /\ fn_in \in {[kind |-> "close_reply", reply |-> r] : r \in CloseProbeReplies}
    /\ fn_out = None

apply_close_batch ==
    /\ fn_in.kind = "close_reply"
    /\ fn_out = None
    /\ fn_out' = close_batch(fn_in.reply)
    /\ UNCHANGED <<HandlerVars, fn_in>>

NextClose == apply_close_batch

SpecClose == InitClose /\ [][NextClose]_vars

-----------------------------------------------------------------------------
(* Properties of update_country, stated over the log of vendor calls of    *)
(* the current request and its response                                    *)

CallCount(api) == Cardinality({i \in DOMAIN calls : calls[i].api = api})

\* the i-th vendor call got an HTTP reply
Replied(i) == i \in DOMAIN calls /\ calls[i].reply.kind = "http"

\* the i-th vendor call ended in a timeout or a connection error
Failed(i) == i \in DOMAIN calls /\ calls[i].reply.kind = "exception"

ParsedReply(i) == parse_soap_response(calls[i].reply.text)

InitialIs175 == Replied(1) /\ ParsedReply(1).response_code = "175"

\* some line of the text has at least three fields, the third being tid
\* once trimmed
HasMatch(text, tid) ==
    LET lines == split(strip(text), "\n")
    IN  \E i \in 1..Len(lines) :
            LET parts == split(strip(lines[i]), ",")
            IN  Len(parts) >= 3 /\ strip(parts[3]) = tid

LocateFailed ==
    /\ Len(calls) >= 2
    /\ \/ Failed(2)
       \/ Replied(2) /\ calls[2].reply.status # 200
       \/ Replied(2) /\ ~HasMatch(calls[2].reply.text, strip(form.terminal_id))

LocateReturned ==
    /\ Replied(2)
    /\ calls[2].reply.status = 200
    /\ HasMatch(calls[2].reply.text, strip(form.terminal_id))

\* the close-batch call got a reply that close_batch can read
CloseParsed == Replied(3) /\ calls[3].reply.status = 200 /\ calls[3].reply.text.json

CloseRaised == Len(calls) >= 3 /\ (Failed(3) \/ (Replied(3) /\ ~CloseParsed))

CloseSucceeded == CloseParsed /\ calls[3].reply.text.ResponseCode = <<"000">>

CloseRefused == CloseParsed /\ calls[3].reply.text.ResponseCode # <<"000">>

NormalFields ==
    {"success", "merchant_id", "terminal_id", "country", "response_code",
     "response_text", "is_success"}

\* C1: when the initial reply parses to "175", the locator returns a record,
\* close_batch succeeds and the retry gets a reply, the outcome has
\* batch_closed = true and the response code and text parsed from the
\* retry's reply.
C1_RetryResultReported ==
    (pc = "done" /\ InitialIs175 /\ LocateReturned /\ CloseSucceeded /\ Replied(4))
        => /\ response.status = 200
           /\ response.body.batch_closed = TRUE
           /\ response.body.response_code = ParsedReply(4).response_code
           /\ response.body.response_text = ParsedReply(4).response_text

C1_Witness ==
    /\ pc = "done" /\ InitialIs175 /\ LocateReturned /\ CloseSucceeded /\ Replied(4)
    /\ ParsedReply(4).response_code = "1"
    /\ ParsedReply(4).response_text # ParsedReply(1).response_text
    /\ response.body.response_code = "1"

\* C2: when the initial reply is "175" and the locator fails (no matching
\* record, a status other than 200, a transport failure, or missing client
\* credentials), neither a close-batch call nor a retry is ever issued, and
\* the outcome has batch_closed = false, a batch_close_error that is not
\* null and the response code "175".
C2_LocateFailureReported ==
    (InitialIs175 /\ (LocateFailed \/ ~export_credentials_ok(env)))
        => /\ CallCount("close") = 0
           /\ CallCount("update") = 1
           /\ pc = "done"
           /\ response.status = 200
           /\ response.body.batch_closed = FALSE
           /\ response.body.batch_close_error # None
           /\ response.body.response_code = "175"

C2_Witness ==
    /\ pc = "done" /\ InitialIs175 /\ Replied(2)
    /\ calls[2].reply.status = 200
    /\ calls[2].reply.text # <<>>
    /\ ~HasMatch(calls[2].reply.text, strip(form.terminal_id))
    /\ response.body.batch_closed = FALSE

\* C3: the update endpoint is called at most twice per request, the export
\* and close-batch endpoints at most once each; a retry whose reply is again
\* "175" ends the request with no further call and is reported as the
\* result.
C3_AtMostOneRetry ==
    /\ CallCount("update") <= 2
    /\ CallCount("export") <= 1
    /\ CallCount("close") <= 1
    /\ (Replied(4) /\ ParsedReply(4).response_code = "175")
        => /\ Len(calls) = 4
           /\ pc = "done"
           /\ response.status = 200
           /\ response.body.response_code = "175"
           /\ response.body.response_text = ParsedReply(4).response_text

C3_Witness ==
    /\ pc = "done"
    /\ Replied(4) /\ ParsedReply(4).response_code = "175"
    /\ CallCount("update") = 2
    /\ response.body.batch_closed = TRUE

\* C4: when the locator returns a record and close_batch returns a result
\* with a code other than "000", no retry is sent and the outcome has
\* batch_closed = false, a batch_close_error made of the close reply's code
\* and text, and the response code "175".
C4_CloseRefusedReported ==
    (InitialIs175 /\ LocateReturned /\ CloseRefused)
        => /\ Len(calls) = 3
           /\ CallCount("update") = 1
           /\ pc = "done"
           /\ response.status = 200
           /\ response.body.batch_closed = FALSE
           /\ response.body.batch_close_error.msg = "Batch close failed"
           /\ response.body.batch_close_error.detail =
                  <<json_get(calls[3].reply.text, "ResponseCode"),
                    json_get(calls[3].reply.text, "ResponseText")>>
           /\ response.body.response_code = "175"

C4_Witness ==
    /\ pc = "done" /\ InitialIs175 /\ LocateReturned /\ CloseRefused
    /\ calls[3].reply.text.ResponseCode = <<"005">>
    /\ response.body.batch_close_error.detail = <<"005", "Batch closed">>

\* C5: when the initial reply parses to a code other than "175", the request
\* ends at once with a 200 outcome that has no batch_closed and no
\* batch_close_error field, and no further vendor call is made.
C5_NormalOutcome ==
    (Replied(1) /\ ParsedReply(1).response_code # "175")
        => /\ Len(calls) = 1
           /\ pc = "done"
           /\ response.status = 200
           /\ DOMAIN response.body = NormalFields
           /\ response.body.response_code = ParsedReply(1).response_code

C5_Witness ==
    /\ pc = "done" /\ Replied(1)
    /\ ParsedReply(1).response_code = "Parse Error"
    /\ response.status = 200
    /\ "batch_closed" \notin DOMAIN response.body

SubFlowFailed ==
    LocateFailed \/ ~export_credentials_ok(env) \/ CloseRaised \/ CloseRefused

\* C6: once the initial reply is "175", no failure of the batch closing
\* process (a locator failure of any kind, an exception of close_batch, a
\* close result that is not a success) aborts the request: it ends with a
\* 200 outcome whose success field is true, and the failure shows only in
\* batch_closed = false and a batch_close_error that is not null.
C6_SubFlowNeverAborts ==
    (pc = "done" /\ InitialIs175)
        => /\ response.status = 200
           /\ response.body.success = TRUE
           /\ SubFlowFailed
                => /\ response.body.batch_closed = FALSE
                   /\ response.body.batch_close_error # None

C6_Witness ==
    /\ pc = "done" /\ InitialIs175 /\ LocateReturned
    /\ Failed(3)
    /\ response.status = 200
    /\ response.body.batch_close_error.msg = "Close batch failed"

\* C7: a transport failure (timeout or connection error) of a send of the
\* update call, the initial send or the retry, ends the request with HTTP
\* 500 and the body {success: false, error}.
C7_UpdateTransportFailureAborts ==
    (pc = "done" /\ \E i \in DOMAIN calls : calls[i].api = "update" /\ Failed(i))
        => /\ response.status = 500
           /\ response.body.success = FALSE
           /\ "error" \in DOMAIN response.body

InvalidForm ==
    \/ strip(form.merchant_id) = <<>>
    \/ strip(form.terminal_id) = <<>>
    \/ strip(form.country) \notin {kUS, kCA, kAU}

\* C8: when merchant_id or terminal_id is empty after trimming, or the
\* country key is not in the country table, the request ends with HTTP 400
\* and the body {success: false, error}, and no vendor call is made.
C8_ValidationRejects ==
    (form # None /\ InvalidForm)
        => /\ calls = <<>>
           /\ pc = "done"
           /\ response.status = 400
           /\ response.body.success = FALSE
           /\ DOMAIN response.body = {"success", "error"}

C8_Witness ==
    /\ pc = "done"
    /\ form # None
    /\ strip(form.merchant_id) # <<>>
    /\ form.terminal_id = <<"\t">>
    /\ strip(form.country) \in {kUS, kCA, kAU}
    /\ response.status = 400
    /\ calls = <<>>

\* the US-Eastern civil day of a UTC instant
EasternDay(utc) == (utc + ny_utcoffset(utc)) \div MinutesPerDay

\* mm/dd/yyyy of a civil day
CivilDate(day) ==
    LET c == civil_from_days(day) IN <<c[2], c[3], c[1]>>

RowMatches(rows, i, tid) == Len(rows[i]) >= 3 /\ strip(rows[i][3]) = tid

\* C10: the batch locator returns the first line, in body order, among the
\* lines of at least three comma-separated fields whose trimmed third field
\* is the terminal id, with emid and terminal_id the trimmed first two
\* fields of that line; blank lines and lines of fewer than three fields
\* never match; when no line matches, the empty body included, it fails
\* with the not-found error.
C10_FirstMatchingRecord ==
    fn_out.kind \in {"return", "raise"}
        => LET rows == fn_in.rows
               tid  == fn_in.terminal_id
           IN  IF \E i \in 1..Len(rows) : RowMatches(rows, i, tid)
               THEN LET i == CHOOSE k \in 1..Len(rows) :
                                 /\ RowMatches(rows, k, tid)
                                 /\ \A j \in 1..(k - 1) : ~RowMatches(rows, j, tid)
                    IN  fn_out = Return([kind           |-> "record",
                                         emid           |-> strip(rows[i][1]),
                                         terminal_id    |-> strip(rows[i][2]),
                                         identification |-> tid])
               ELSE /\ fn_out.kind = "raise"
                    /\ fn_out.detail.msg = "No matching record found for TID"

C10_Witness ==
    /\ fn_out.kind = "return"
    /\ Len(fn_in.rows) = 3
    /\ fn_in.rows[1] = <<sE1, sID2>>
    /\ fn_in.rows[2][1] = pad(sE3)
    /\ fn_in.rows[3] = <<sE2, sT2, sID2>>
    /\ fn_in.terminal_id = sID2
    /\ fn_out.value.emid = sE3

\* the document has an element of that tag in the vendor's namespace
HasElement(doc, tag) ==
    \E i \in 1..Len(doc.elems) :
        doc.elems[i].ns = CA_NS /\ doc.elems[i].tag = tag

\* the text of the first such element
FirstText(doc, tag) ==
    LET i == CHOOSE k \in 1..Len(doc.elems) :
                 /\ doc.elems[k].ns = CA_NS /\ doc.elems[k].tag = tag
                 /\ \A j \in 1..(k - 1) :
                        ~(doc.elems[j].ns = CA_NS /\ doc.elems[j].tag = tag)
    IN  doc.elems[i].text

\* C11: parse_soap_response returns a result for every input: success = true
\* with the two element texts exactly when both ca:ResponseCode and
\* ca:ResponseText are present; success = false with the code "Unknown" when
\* the input is XML and either is absent; success = false with the code
\* "Parse Error" when the input is not XML.
C11_ParseIsTotal ==
    fn_in.kind = "reply_text"
        => /\ fn_out = None \/ fn_out.kind = "parsed"
           /\ fn_out.kind = "parsed"
                => LET doc == fn_in.doc
                       out == fn_out.value
                   IN  IF ~doc.xml
                       THEN out.success = FALSE /\ out.response_code = "Parse Error"
                       ELSE IF HasElement(doc, "ResponseCode")
                               /\ HasElement(doc, "ResponseText")
                       THEN out = [success       |-> TRUE,
                                   response_code |-> FirstText(doc, "ResponseCode"),
                                   response_text |-> FirstText(doc, "ResponseText")]
                       ELSE out.success = FALSE /\ out.response_code = "Unknown"

\* a reply whose ResponseCode stands outside the vendor's namespace
C11_Witness ==
    /\ fn_in.kind = "reply_text"
    /\ fn_in.doc.xml
    /\ Len(fn_in.doc.elems) = 2
    /\ fn_in.doc.elems[1] = Elem("", "ResponseCode", "0")
    /\ fn_in.doc.elems[2] = Elem(CA_NS, "ResponseText", "OK")
    /\ fn_out.kind = "parsed"
    /\ fn_out.value.response_code = "Unknown"

\* C12: close_batch reports success exactly when the reply's ResponseCode
\* is "000", a reply without ResponseCode being no success, and raises on
\* every HTTP status other than 200 instead of returning a result.
C12_CloseSuccessIs000 ==
    (fn_in.kind = "close_reply" /\ fn_out # None /\ fn_in.reply.kind = "http")
        => LET reply == fn_in.reply
           IN  /\ reply.status # 200 => fn_out.kind = "raise"
               /\ (reply.status = 200 /\ reply.text.json)
                    => /\ fn_out.kind = "return"
                       /\ fn_out.value.success
                              <=> reply.text.ResponseCode = <<"000">>
                       /\ fn_out.value.response_code =
                              (IF reply.text.ResponseCode = <<>> THEN ""
                               ELSE reply.text.ResponseCode[1])

\* a 200 reply without ResponseCode
C12_Witness ==
    /\ fn_in.kind = "close_reply"
    /\ fn_in.reply.kind = "http"
    /\ fn_in.reply.status = 200
    /\ fn_in.reply.text.json
    /\ fn_in.reply.text.ResponseCode = <<>>
    /\ fn_out.kind = "return"
    /\ fn_out.value.success = FALSE

\* the numeric code of a country key, as the country table gives it
TableCode(key) ==
    CASE key = kUS -> <<"8", "4", "0">>
      [] key = kCA -> <<"1", "2", "4">>
      [] key = kAU -> <<"0", "3", "6">>

\* C13: every update request sent, the initial one and the retry, carries
\* the merchant id as entered (trimmed) and the selected country's numeric
\* code both as CountryCode and as CurrencyCode.
C13_RequestCarriesCountryTwice ==
    \A i \in DOMAIN calls :
        calls[i].api = "update"
            => /\ calls[i].request.MerchantId = strip(form.merchant_id)
               /\ calls[i].request.CountryCode = TableCode(strip(form.country))
               /\ calls[i].request.CurrencyCode = calls[i].request.CountryCode

C13_Witness ==
    /\ Len(calls) = 4
    /\ form.merchant_id = pad(sM1)
    /\ form.country = pad(kAU)
    /\ calls[4].api = "update"
    /\ calls[4].request.MerchantId = sM1
    /\ calls[4].request.CurrencyCode = <<"0", "3", "6">>

UpdateCredentialMissing ==
    \E v \in {"CHANNEL_NAME", "USERNAME", "PASSWORD"} : env[v] \in {"<unset>", ""}

ClientCredentialMissing ==
    \E v \in {"CLIENT_KEY", "CLIENT_SECRET"} : env[v] \in {"<unset>", ""}

\* C14: when one of channel name, username and password is missing or
\* empty, create_soap_request raises before a document exists: no vendor
\* call is sent, and a request that passed validation ends with HTTP 500 and
\* the body {success: false, error}.
C14_MissingCredentialIs500 ==
    UpdateCredentialMissing
        => /\ calls = <<>>
           /\ soap_request = None
           /\ (form # None /\ ~InvalidForm)
                => /\ pc = "done"
                   /\ response.status = 500
                   /\ DOMAIN response.body = {"success", "error"}
                   /\ response.body.success = FALSE
                   /\ response.body.error.detail.msg =
                          "Missing required credentials in .env file"

C14_Witness ==
    /\ env["CHANNEL_NAME"] = "set" /\ env["USERNAME"] = "set"
    /\ env["PASSWORD"] = ""
    /\ form # None /\ ~InvalidForm
    /\ pc = "done"
    /\ response.status = 500

FirstMatchFields(text, tid) ==
    LET lines == split(strip(text), "\n")
        hit(k) == LET parts == split(strip(lines[k]), ",")
                  IN  Len(parts) >= 3 /\ strip(parts[3]) = tid
        i     == CHOOSE k \in 1..Len(lines) :
                     hit(k) /\ \A j \in 1..(k - 1) : ~hit(j)
        parts == split(strip(lines[i]), ",")
    IN  <<strip(parts[1]), strip(parts[2])>>

ApiOrder == <<"update", "export", "close", "update">>

\* C17: the vendor calls of a request come in the order update, export,
\* close, update; the export call follows an initial "175"; the close-batch
\* call follows a successful locate and carries the located record's emid as
\* MerchantId, its terminal id and its identification; the retry follows a
\* successful close and carries the request of the initial update.
C17_CallOrderAndPayloads ==
    /\ Len(calls) <= 4
    /\ \A i \in DOMAIN calls : calls[i].api = ApiOrder[i]
    /\ Len(calls) >= 2 => InitialIs175
    /\ Len(calls) >= 3
         => /\ LocateReturned
            /\ LET rec == FirstMatchFields(calls[2].reply.text,
                                           strip(form.terminal_id))
               IN  calls[3].request =
                       [MerchantId      |-> rec[1],
                        TerminalId      |-> rec[2],
                        Identification  |-> strip(form.terminal_id),
                        TransactionType |-> "CloseBatch",
                        VersionNumber   |-> "2.6"]
    /\ Len(calls) >= 4
         => /\ CloseSucceeded
            /\ calls[4].request = calls[1].request

C17_Witness ==
    /\ Len(calls) = 4
    /\ calls[3].request.MerchantId = sE3
    /\ calls[3].request.TerminalId = sT3
    /\ calls[3].request.Identification = sID2
    /\ calls[3].request.MerchantId # strip(form.merchant_id)
    /\ calls[4].request = soap_request

\* C18: in every outcome, batch_closed = true and a batch_close_error that
\* is not null never occur together, a failure of the retry send included.
C18_ClosedExcludesError ==
    (pc = "done" /\ response.status = 200
        /\ "batch_closed" \in DOMAIN response.body
        /\ response.body.batch_closed)
        => response.body.batch_close_error = None

HasBatchFields == "batch_closed" \in DOMAIN response.body

\* C19: in every 200 outcome is_success is true exactly when the reported
\* response code is "1"; an outcome with batch_closed = false reports the
\* code "175" and is_success = false; is_success = true together with the
\* batch fields occurs only with batch_closed = true and a retry whose code
\* is "1".
C19_IsSuccessIsCode1 ==
    (pc = "done" /\ response.status = 200)
        => /\ response.body.is_success <=> response.body.response_code = "1"
           /\ (HasBatchFields /\ ~response.body.batch_closed)
                => /\ response.body.response_code = "175"
                   /\ ~response.body.is_success
           /\ (HasBatchFields /\ response.body.is_success)
                => /\ response.body.batch_closed
                   /\ Replied(4)
                   /\ ParsedReply(4).response_code = "1"

C19_Witness ==
    /\ pc = "done" /\ response.status = 200
    /\ HasBatchFields
    /\ response.body.is_success
    /\ response.body.batch_closed

\* C20: when every vendor call returns or fails, every request ends with
\* exactly one response, after at most four vendor calls: two updates at
\* most, one export at most, one close-batch at most.
C20_TerminatesWithinFourCalls ==
    /\ [](/\ Len(calls) <= 4
          /\ CallCount("update") <= 2
          /\ CallCount("export") <= 1
          /\ CallCount("close") <= 1)
    /\ [](response # None <=> pc = "done")
    /\ [][response # None => (response' = response \/ response' = None)]_vars
    /\ (pc # "idle") ~> (pc = "done")

C20_Witness ==
    /\ pc = "done"
    /\ response # None
    /\ CallCount("update") = 2
    /\ CallCount("export") = 1
    /\ CallCount("close") = 1
    /\ \A i \in DOMAIN calls : calls[i].reply # None

\* what a request does as a function of its form, the environment, the
\* clock value and the replies its own calls have received so far: the
\* requests it has sent, in order, and its response (None while a call is
\* in flight)
ReplayBody(f, res) ==
    [success       |-> TRUE,
     merchant_id   |-> strip(f.merchant_id),
     terminal_id   |-> strip(f.terminal_id),
     country       |-> COUNTRIES[strip(f.country)].name,
     response_code |-> res.response_code,
     response_text |-> res.response_text,
     is_success    |-> res.response_code = "1"]

ReplayBatch(f, res, closed, err) ==
    Http(200, ReplayBody(f, res) @@
              [k \in {"batch_closed", "batch_close_error"} |->
                  IF k = "batch_closed" THEN closed ELSE err])

Sent(cs, resp) == [calls |-> cs, response |-> resp]

Replay(f, environ, utc, rs) ==
    LET m       == strip(f.merchant_id)
        t       == strip(f.terminal_id)
        c       == strip(f.country)
        invalid == validation_error(m, t, c)
    IN  IF invalid # "" THEN Sent(<<>>, Http(400, error_outcome(invalid, None)))
        ELSE
    LET built == create_soap_request(m, COUNTRIES[c].code, environ)
    IN  IF built.kind = "raise"
        THEN Sent(<<>>, Http(500, error_outcome("Unexpected error", str(built))))
        ELSE
    LET c1 == [api |-> "update", request |-> built.value]
    IN  IF Len(rs) = 0 THEN Sent(<<c1>>, None)
        ELSE IF rs[1].kind = "exception"
        THEN Sent(<<c1>>, Http(500, error_outcome("API request failed", None)))
        ELSE
    LET res == parse_soap_response(rs[1].text)
    IN  IF res.response_code # "175"
        THEN Sent(<<c1>>, Http(200, ReplayBody(f, res)))
        ELSE IF ~(truthy(environ["CLIENT_KEY"]) /\ truthy(environ["CLIENT_SECRET"]))
        THEN Sent(<<c1>>, ReplayBatch(f, res, FALSE,
                 str(export_wrap(Raise("ValueError",
                     "Missing CLIENT_KEY or CLIENT_SECRET in .env file", None)))))
        ELSE
    LET c2 == [api |-> "export", request |-> export_form_data(environ, utc)]
    IN  IF Len(rs) = 1 THEN Sent(<<c1, c2>>, None)
        ELSE
    LET ex == get_batch_export_data(t, rs[2])
    IN  IF ex.kind = "raise"
        THEN Sent(<<c1, c2>>, ReplayBatch(f, res, FALSE, str(ex)))
        ELSE
    LET c3 == [api |-> "close",
               request |-> close_payload(ex.value.emid, ex.value.terminal_id,
                                         ex.value.identification)]
    IN  IF Len(rs) = 2 THEN Sent(<<c1, c2, c3>>, None)
        ELSE
    LET cl == close_batch(rs[3])
    IN  IF cl.kind = "raise"
        THEN Sent(<<c1, c2, c3>>, ReplayBatch(f, res, FALSE, str(cl)))
        ELSE IF ~cl.value.success
        THEN Sent(<<c1, c2, c3>>, ReplayBatch(f, res, FALSE,
                 [kind   |-> "str",
                  msg    |-> "Batch close failed",
                  detail |-> <<cl.value.response_code, cl.value.response_text>>]))
        ELSE IF Len(rs) = 3 THEN Sent(<<c1, c2, c3, c1>>, None)
        ELSE IF rs[4].kind = "exception"
        THEN Sent(<<c1, c2, c3, c1>>, ReplayBatch(f, res, TRUE,
                 str(Raise("RequestException", "transport failure", None))))
        ELSE Sent(<<c1, c2, c3, c1>>,
                  ReplayBatch(f, parse_soap_response(rs[4].text), TRUE, None))

\* the requests a thread has sent and its response
Observed(ctx) ==
    Sent([i \in DOMAIN ctx.calls |->
              [api |-> ctx.calls[i].api, request |-> ctx.calls[i].request]],
         ctx.response)

\* the replies a thread has received, in order
RepliesOf(ctx) ==
    LET answered == SelectSeq(ctx.calls, LAMBDA call : call.reply # None)
    IN  [i \in DOMAIN answered |-> answered[i].reply]

\* each thread has sent and answered what its own inputs and replies give
OwnReplay ==
    \A ctx \in {Locals, parked} :
        ctx.form # None
            => Observed(ctx) = Replay(ctx.form, env, ctx.now, RepliesOf(ctx))

\* a step writes neither the environment nor the parked thread's locals,
\* except that a switch parks the running thread's locals as they are
OthersUntouched ==
    /\ env' = env
    /\ parked' # parked => parked' = Locals

\* C16: two requests handled concurrently share no state that either
\* writes: the steps of one thread leave the environment and the other
\* thread's locals as they are, and what each thread has sent and answered
\* is a function of its own form, the environment, its clock value and the
\* replies to its own calls, whatever the other thread does in between.
C16_ConcurrentRequestsIndependent ==
    /\ []OwnReplay
    /\ [][OthersUntouched]_vars

C16_Witness ==
    /\ pc = "done"
    /\ Len(calls) = 4
    /\ response.body.batch_closed
    /\ parked.pc = "await_close"
    /\ parked.batch_closed = FALSE
    /\ parked.form # form
    /\ parked.result.response_code = "175"
    /\ result.response_code = "1"

=============================================================================
